---- MODULE Spec2Model ----
(***************************************************************************)
(* A model of post_processing/rayleigh.py, the reader of RAYLEIGH's binary *)
(* output files: byte-order detection, the versioned file decoders, the    *)
(* directory scans and the aggregated, indexable outputs built from them.  *)
(*                                                                         *)
(* The module holds one specification per part of the program:             *)
(*   SpecEndian    BaseFile.get_endian                                     *)
(*   SpecShellAvgs Shell_Avgs_file.__init__                                *)
(*   SpecDiscover  Spherical_3D.__init__ (directory discovery)             *)
(*   SpecOutput    Rayleigh_Output (Meridional_Slices): construction,      *)
(*                 field access and iteration                              *)
(*   Spec3D        Spherical_3D_grid / _value / _TimeSeries / _Snapshot    *)
(*   SpecHandle    BaseFile.__init__ and the life of the handle it opens   *)
(*   SpecSlice     Meridional_Slices_file / Equatorial_Slices_file         *)
(* Each specification moves its own variables and leaves the others idle.  *)
(***************************************************************************)
EXTENDS Integers, Sequences, FiniteSets, TLC

VARIABLES
    buf, endian,                         \* get_endian: bytes read, result
    shell_file, shell,                   \* Shell_Avgs_file: header, decoded object
    d_pc, seen, bad, snaps, quants,      \* Spherical_3D.__init__: position, entries
                                         \* taken, entry raised on, self.snaps,
                                         \* self.quants
    slice_file, slice,                   \* a slice file and the object decoded from it
    dir, files, o_pc, o_i,               \* Rayleigh_Output.__init__: the directory,
                                         \* files, position, loop index i
    val, time, iter, gridpointer, lists, \* self.val, .time, .iter, .gridpointer and
                                         \* the per-file lists named in attrs
    op,                                  \* the one access or iteration followed
    grid_file, g3,                       \* a 3D grid file with the field asked for,
                                         \* and the field as decoded
    h_file, h                            \* a grid file as opened by BaseFile, and
                                         \* the handle's state

varsEndian   == <<buf, endian>>
varsShell    == <<shell_file, shell>>
varsDiscover == <<d_pc, seen, bad, snaps, quants>>
varsSlice    == <<slice_file, slice>>
varsOutput   == <<dir, files, o_pc, o_i, val, time, iter, gridpointer, lists, op>>
vars3D       == <<grid_file, g3>>
varsHandle   == <<h_file, h>>
vars == <<buf, endian, shell_file, shell, d_pc, seen, bad, snaps, quants,
          slice_file, slice, dir, files, o_pc, o_i, val, time, iter, gridpointer,
          lists, op, grid_file, g3, h_file, h>>

\* ------------------------------------------------------------------------
\* Helpers shared by the decoders
\* ------------------------------------------------------------------------

RECURSIVE product(_)
\* np.product(shape)
product(shape) ==
    IF shape = <<>> THEN 1 ELSE Head(shape) * product(Tail(shape))

\* ------------------------------------------------------------------------
\* BaseFile.get_endian
\* ------------------------------------------------------------------------

\* The sentinel every file opens with, and the width of its type 'i4'.
Sentinel == 314
SigSize == 4

\* Byte values the sentinel field is drawn from: those of 314's two encodings
\* (0x3A, 0x01, 0x00) and 0xFF, whose top bit makes the int32 negative.
ByteVals == {0, 1, 58, 255}

\* The top byte of a two's-complement int32.
SignedByte(b) == IF b >= 128 THEN b - 256 ELSE b

\* np.frombuffer(buf, dtype="<i4", count=1)[0]
FromBufferLE(b) == b[1] + 256 * b[2] + 65536 * b[3] + 16777216 * SignedByte(b[4])

\* np.frombuffer(buf, dtype=">i4", count=1)[0]
FromBufferBE(b) == b[4] + 256 * b[3] + 65536 * b[2] + 16777216 * SignedByte(b[1])

\* A plausible slip: the two branches return each other's answer.
get_endian_swapped(b, sig) ==
    IF Len(b) < SigSize THEN "ValueError"
    ELSE IF FromBufferLE(b) = sig THEN ">"
    ELSE IF FromBufferBE(b) = sig THEN "<"
    ELSE "IOError"

\* BaseFile.get_endian(fd, sig, 'i4') on the bytes fd.read(4) returned.  A
\* file shorter than the sentinel gives fewer bytes, and np.frombuffer raises
\* ValueError on them.
get_endian(b, sig) ==
    IF Len(b) < SigSize THEN "ValueError"
    ELSE IF FromBufferLE(b) = sig THEN "<"
    ELSE IF FromBufferBE(b) = sig THEN ">"
    ELSE "IOError"

\* 314 as a file holds it, low byte first and high byte first.
EncodeLESentinel == <<58, 1, 0, 0>>
EncodeBESentinel == <<0, 0, 1, 58>>

IdleEndian == buf = <<>> /\ endian = "idle"

\* fd.read(4): up to four bytes, fewer at the end of the file.
SentinelBufs == UNION { [1..n -> ByteVals] : n \in 0..SigSize }

InitEndianVars == buf \in SentinelBufs /\ endian = "unread"

DetectEndian ==
    /\ endian = "unread"
    /\ endian' = get_endian(buf, Sentinel)
    /\ UNCHANGED <<buf, varsShell, varsDiscover, varsSlice, varsOutput, vars3D, varsHandle>>

\* ------------------------------------------------------------------------
\* Shell_Avgs_file
\* ------------------------------------------------------------------------

\* Bounds of the model: array dimensions run over 1..MaxDim, record counts over
\* 0..MaxRec.
MaxDim == 2
MaxRec == 2

\* The shape of what BaseFile.get_value(dtype, shape) returns: the array of
\* that shape, or out[0] when it holds one element (a scalar for a 1-D shape,
\* the array without its first axis otherwise).
get_value_shape(shape) ==
    IF product(shape) = 1 THEN Tail(shape) ELSE shape

\* Version integers a shell-average header is drawn from.
ShellVersions == (-1..7) \cup {99}

ShellFiles ==
    [version : ShellVersions, nrec : 0..MaxRec, nr : 1..MaxDim, nq : 1..MaxDim]

\* The shape of one record's 'val' field, as the if/elif/else chain on
\* self.version picks it.
shell_val_shape(f) ==
    IF f.version = 1 THEN <<f.nr, f.nq>>
    ELSE IF f.version < 6 THEN <<f.nr, 4, f.nq>>
    ELSE <<f.nr, 4, f.nq>>

\* Bytes of one record: val (f8 each), time (f8), iters (i4).
shell_itemsize(f) == 8 * product(shell_val_shape(f)) + 8 + 4

\* Shell_Avgs_file.__init__ on a well-formed file: the sentinel, version,
\* nrec, nr, nq, npcol for version >= 6, qv[nq], radius[nr], then nrec
\* records in one block.  buf['val'] keeps the record axis unless get_value
\* returned out[0] (nrec = 1).
Shell_Avgs_file(f) ==
    [ status  |-> "ok",
      version |-> f.version,
      npcol   |-> (f.version >= 6),
      layout  |-> shell_val_shape(f),
      val     |-> get_value_shape(<<f.nrec>>) \o shell_val_shape(f),
      cursor  |-> SigSize + 4 * 4 + (IF f.version >= 6 THEN 4 ELSE 0)
                    + 4 * f.nq + 8 * f.nr + f.nrec * shell_itemsize(f) ]

NoShellFile == [version |-> 0, nrec |-> 0, nr |-> 0, nq |-> 0]
NoShell == [status |-> "idle", version |-> 0, npcol |-> FALSE, layout |-> <<>>,
            val |-> <<>>, cursor |-> 0]

IdleShell == shell_file = NoShellFile /\ shell = NoShell

InitShellVars ==
    /\ shell_file \in ShellFiles
    /\ shell = [NoShell EXCEPT !.status = "undecoded"]

DecodeShellAvgs ==
    /\ shell.status = "undecoded"
    /\ shell' = Shell_Avgs_file(shell_file)
    /\ UNCHANGED <<shell_file, varsEndian, varsDiscover, varsSlice, varsOutput, vars3D, varsHandle>>

\* ------------------------------------------------------------------------
\* Spherical_3D.__init__: directory discovery
\* ------------------------------------------------------------------------
\* A directory entry is a string, modelled as the sequence of its characters.

\* The widths of "{:08d}" and "{:04d}".
SnapWidth == 8
QuantWidth == 4

\* At most MaxFiles entries of the directory are taken.
MaxFiles == 2

DigitChars == <<"0", "1", "2", "3", "4", "5", "6", "7", "8", "9">>
IsDigit(c) == \E i \in 1..10 : DigitChars[i] = c
DigitVal(c) == (CHOOSE i \in 1..10 : DigitChars[i] = c) - 1

Zeros(k) == [i \in 1..k |-> "0"]

RECURSIVE split(_, _)
\* str.split(sep): the parts between the separators.
split(s, sep) ==
    IF \A i \in 1..Len(s) : s[i] # sep THEN <<s>>
    ELSE LET i == CHOOSE j \in 1..Len(s) :
                      s[j] = sep /\ \A k \in 1..(j - 1) : s[k] # sep
         IN  <<SubSeq(s, 1, i - 1)>> \o split(SubSeq(s, i + 1, Len(s)), sep)

RECURSIVE strip(_)
\* str.strip(): int() ignores blanks around the number.
strip(s) ==
    IF s # <<>> /\ Head(s) = " " THEN strip(Tail(s))
    ELSE IF s # <<>> /\ s[Len(s)] = " " THEN strip(SubSeq(s, 1, Len(s) - 1))
    ELSE s

RECURSIVE digits_value(_)
digits_value(s) ==
    IF s = <<>> THEN 0
    ELSE 10 * digits_value(SubSeq(s, 1, Len(s) - 1)) + DigitVal(s[Len(s)])

\* int(s): blanks around, an optional sign, then one or more digits; anything
\* else raises ValueError.
py_int(s) ==
    LET t == strip(s)
        signed == t # <<>> /\ t[1] \in {"-", "+"}
        d == IF signed THEN Tail(t) ELSE t
    IN  IF d = <<>> \/ \E i \in 1..Len(d) : ~IsDigit(d[i])
        THEN [ok |-> FALSE, v |-> 0]
        ELSE [ok |-> TRUE,
              v |-> IF signed /\ t[1] = "-" THEN 0 - digits_value(d)
                    ELSE digits_value(d)]

RECURSIVE nat_str(_)
\* The decimal digits of n >= 0.
nat_str(n) ==
    IF n < 10 THEN <<DigitChars[n + 1]>>
    ELSE nat_str(n \div 10) \o <<DigitChars[(n % 10) + 1]>>

zero_pad(d, w) == IF Len(d) >= w THEN d ELSE Zeros(w - Len(d)) \o d

\* "{:0wd}".format(n): zero-padded to w characters, the sign counted in.
format_d(n, w) ==
    IF n < 0 THEN <<"-">> \o zero_pad(nat_str(0 - n), w - 1)
    ELSE zero_pad(nat_str(n), w)

GridToken == <<"g", "r", "i", "d">>

\* The strings the step and quantity tokens are drawn from: a run of zeros one
\* or two short of the width, after nothing, a sign or a blank, before one or
\* two characters.  They hold exact, short and long paddings, signed and
\* blank-led numbers and non-numbers.
Prefixes == {<<>>, <<"-">>, <<"+">>, <<" ">>}
Tails == {<<"1">>, <<"1", "2">>, <<"x">>}
TokenStrs(w) == { pre \o Zeros(k) \o t : pre \in Prefixes, k \in {w - 2, w - 1}, t \in Tails }
PlainStrs(w) == { Zeros(k) \o t : k \in {w - 2, w - 1}, t \in Tails }

\* What os.listdir may return: field-like names, grid names, and names with
\* no or two underscores.
Entries ==
    { s \o <<"_">> \o q : s \in TokenStrs(SnapWidth), q \in TokenStrs(QuantWidth) }
    \cup { s \o <<"_">> \o GridToken : s \in PlainStrs(SnapWidth) }
    \cup { GridToken, <<"_">>,
           format_d(1, SnapWidth) \o <<"_">> \o format_d(1, QuantWidth)
               \o <<"_">> \o format_d(1, QuantWidth) }

\* A mutant of the scan: the two asserts are dropped.
scan_entry_unchecked(f) ==
    LET parts == split(f, "_") IN
    IF Len(parts) # 2 THEN [res |-> "ValueError", s |-> 0, q |-> 0]
    ELSE IF parts[2] = GridToken THEN [res |-> "continue", s |-> 0, q |-> 0]
    ELSE IF ~py_int(parts[1]).ok \/ ~py_int(parts[2]).ok
         THEN [res |-> "ValueError", s |-> 0, q |-> 0]
    ELSE [res |-> "add", s |-> py_int(parts[1]).v, q |-> py_int(parts[2]).v]

\* One pass of the loop body on entry f: what it ends in, and the step and
\* quantity it adds.
scan_entry(f) ==
    LET parts == split(f, "_") IN
    IF Len(parts) # 2 THEN [res |-> "ValueError", s |-> 0, q |-> 0]
    ELSE IF parts[2] = GridToken THEN [res |-> "continue", s |-> 0, q |-> 0]
    ELSE IF ~py_int(parts[1]).ok \/ ~py_int(parts[2]).ok
         THEN [res |-> "ValueError", s |-> 0, q |-> 0]
    ELSE LET s == py_int(parts[1]).v
             q == py_int(parts[2]).v
         IN  IF format_d(s, SnapWidth) # parts[1] \/ format_d(q, QuantWidth) # parts[2]
             THEN [res |-> "AssertionError", s |-> 0, q |-> 0]
             ELSE [res |-> "add", s |-> s, q |-> q]

RECURSIVE insert_sorted(_, _)
insert_sorted(x, l) ==
    IF l = <<>> THEN <<x>>
    ELSE IF x <= Head(l) THEN <<x>> \o l
    ELSE <<Head(l)>> \o insert_sorted(x, Tail(l))

RECURSIVE sorted(_)
sorted(l) == IF l = <<>> THEN <<>> ELSE insert_sorted(Head(l), sorted(Tail(l)))

\* A mutant of list.sort(): the list is left as list(set) gave it.
list_sort_skipped(l) == l

\* list.sort() on a list of integers.
list_sort(l) == sorted(l)

\* list(a_set): the elements once each, in an order the set decides.
Lists(S) ==
    { l \in [1..Cardinality(S) -> S] : \A x \in S : \E i \in DOMAIN l : l[i] = x }

IdleDiscover ==
    d_pc = "idle" /\ seen = {} /\ bad = <<>> /\ snaps = {} /\ quants = {}

InitDiscoverVars ==
    d_pc = "scan" /\ seen = {} /\ bad = <<>> /\ snaps = {} /\ quants = {}

\* for f in files: one entry of the listing, in whatever order it comes.
ScanEntry ==
    /\ d_pc = "scan"
    /\ Cardinality(seen) < MaxFiles
    /\ \E f \in Entries \ seen :
         LET r == scan_entry(f) IN
         IF r.res \in {"ValueError", "AssertionError"}
         THEN /\ d_pc' = r.res
              /\ bad' = f
              /\ UNCHANGED <<seen, snaps, quants>>
         ELSE /\ seen' = seen \cup {f}
              /\ snaps' = IF r.res = "add" THEN snaps \cup {r.s} ELSE snaps
              /\ quants' = IF r.res = "add" THEN quants \cup {r.q} ELSE quants
              /\ UNCHANGED <<d_pc, bad>>
    /\ UNCHANGED <<varsEndian, varsShell, varsSlice, varsOutput, vars3D, varsHandle>>

\* After the loop: self.snaps and self.quants become sorted lists.
FinishDiscover ==
    /\ d_pc = "scan"
    /\ d_pc' = "done"
    /\ \E l \in Lists(snaps) : snaps' = list_sort(l)
    /\ \E l \in Lists(quants) : quants' = list_sort(l)
    /\ UNCHANGED <<seen, bad, varsEndian, varsShell, varsSlice, varsOutput, vars3D, varsHandle>>

\* ------------------------------------------------------------------------
\* Meridional_Slices_file, Equatorial_Slices_file
\* ------------------------------------------------------------------------
\* A well-formed slice file is given by its header counts and its quantity
\* vector qv (nq = Len(qv)).  Its payload is named rather than stored: column
\* c of record r of the file named n holds the datum [name n, rec r, q
\* qv[c]], the field of quantity qv[c]; its time and iteration stamps are
\* [name n, rec r].

\* Quantity vectors a file may carry: the same codes in two column orders,
\* another pair, and a file holding a single quantity.
QvChoices == {<<1, 2>>, <<2, 1>>, <<2, 3>>, <<1>>}

SliceFiles(names, dims) ==
    [kind : {"meridional", "equatorial"}, name : names, nrec : 0..MaxRec,
     nr : dims, ntheta : dims, nphi : dims, qv : QvChoices]

\* Whether what get_value(dtype, shape) returns can be iterated: out[0] of a
\* one-element 1-D read is a numpy scalar, which cannot.
get_value_iterable(shape) == get_value_shape(shape) # <<>>

\* {v: i for i, v in enumerate(qv)}: a later column of the same code wins.
enumerate_map(qv) ==
    [v \in {qv[i] : i \in DOMAIN qv} |->
        (CHOOSE i \in DOMAIN qv :
            qv[i] = v /\ \A j \in DOMAIN qv : qv[j] = v => j <= i) - 1]

\* The shape one record's val is read with.
slice_val_shape(f) ==
    IF f.kind = "meridional" THEN <<f.nphi, f.ntheta, f.nr, Len(f.qv)>>
    ELSE <<f.nphi, f.nr, Len(f.qv)>>

\* The i-th record of the decode loop: val, time, iter.
slice_record(f, r) ==
    [ val  |-> [shape |-> get_value_shape(slice_val_shape(f)),
                col |-> [c \in 0..(Len(f.qv) - 1) |->
                            [name |-> f.name, rec |-> r, q |-> f.qv[c + 1]]]],
      time |-> [name |-> f.name, rec |-> r],
      iter |-> [name |-> f.name, rec |-> r] ]

NoSlice == [status |-> "idle"]

\* Meridional_Slices_file.__init__ and Equatorial_Slices_file.__init__ on a
\* well-formed file: the header scalars, qv = get_value('i4', [nq]) and the
\* dict built by enumerating it (TypeError when qv came back a scalar), the
\* coordinate arrays (phi_inds is re-wrapped when nphi = 1; phi is built with
\* nphi entries), then nrec records read one by one.
Slices_file(f) ==
    IF ~get_value_iterable(<<Len(f.qv)>>) THEN [status |-> "TypeError"]
    ELSE
    [ status   |-> "ok",
      qvmap    |-> enumerate_map(f.qv),
      radius   |-> get_value_shape(<<f.nr>>),
      costheta |-> get_value_shape(<<f.ntheta>>),
      sintheta |-> get_value_shape(<<f.ntheta>>),
      phi      |-> <<f.nphi>>,
      val      |-> [r \in 1..f.nrec |-> slice_record(f, r).val],
      time     |-> [r \in 1..f.nrec |-> slice_record(f, r).time],
      iter     |-> [r \in 1..f.nrec |-> slice_record(f, r).iter] ]

NoSliceFile ==
    [kind |-> "none", name |-> <<>>, nrec |-> 0, nr |-> 0, ntheta |-> 0, nphi |-> 0,
     qv |-> <<>>]

IdleSlice == slice_file = NoSliceFile /\ slice = NoSlice

InitSliceVars ==
    /\ slice_file \in SliceFiles({format_d(1, SnapWidth)}, 1..MaxDim)
    /\ slice = [status |-> "undecoded"]

DecodeSlice ==
    /\ slice.status = "undecoded"
    /\ slice' = Slices_file(slice_file)
    /\ UNCHANGED <<slice_file, varsEndian, varsShell, varsDiscover, varsOutput, vars3D, varsHandle>>

\* ------------------------------------------------------------------------
\* Rayleigh_Output (as Meridional_Slices): construction
\* ------------------------------------------------------------------------

\* Meridional_Slices.attrs
attrs == {"radius", "costheta", "sintheta", "qvmap"}

\* The steps the files of an output directory are drawn from; a file is
\* named by its step, zero-padded to eight digits.
OutSteps == {1, 2, 10}
OutNames(S) == { format_d(st, SnapWidth) : st \in S }

\* The file at directory entry n: its counts and quantity vector are the
\* directory's, its grid MaxDim points a side.
file_at(n) ==
    [kind |-> "meridional", name |-> n, nrec |-> dir[n].nrec, nr |-> MaxDim,
     ntheta |-> MaxDim, nphi |-> MaxDim, qv |-> dir[n].qv]

\* The characters of the model in code-point order.
CharOrder ==
    <<" ", "+", "-", "0", "1", "2", "3", "4", "5", "6", "7", "8", "9", "_",
      "d", "g", "i", "r", "x">>
ord(c) == CHOOSE i \in DOMAIN CharOrder : CharOrder[i] = c

RECURSIVE str_le(_, _)
\* a <= b on strings: the first differing character decides, a prefix is
\* smaller.
str_le(a, b) ==
    IF a = <<>> THEN TRUE
    ELSE IF b = <<>> THEN FALSE
    ELSE IF Head(a) # Head(b) THEN ord(Head(a)) < ord(Head(b))
    ELSE str_le(Tail(a), Tail(b))

RECURSIVE insert_str(_, _)
insert_str(x, l) ==
    IF l = <<>> THEN <<x>>
    ELSE IF str_le(x, Head(l)) THEN <<x>> \o l
    ELSE <<Head(l)>> \o insert_str(x, Tail(l))

RECURSIVE files_sort(_)
\* files.sort() on a list of names.
files_sort(l) == IF l = <<>> THEN <<>> ELSE insert_str(Head(l), files_sort(Tail(l)))

\* A mutant: one gridpointer entry per file instead of one per record.
grid_entries_per_file(n, i) == <<i>>

\* len(m.val) * [i]
grid_entries(n, i) == [k \in 1..n |-> i]

NoDatum == [name |-> <<>>, rec |-> 0, q |-> 0]
NoOp == [kind |-> "none", i |-> 0, name |-> "", res |-> "none", data |-> NoDatum,
         pos |-> 0, yielded |-> 0]

IdleOutput ==
    /\ dir = <<>> /\ files = <<>> /\ o_pc = "idle" /\ o_i = 0
    /\ val = <<>> /\ time = <<>> /\ iter = <<>> /\ gridpointer = <<>>
    /\ lists = <<>> /\ op = NoOp

\* files = os.listdir(directory): the entries in an order the system picks.
InitOutputVars ==
    /\ \E S \in SUBSET OutSteps :
         /\ Cardinality(S) <= MaxFiles
         /\ dir \in [OutNames(S) -> [nrec : 0..MaxRec, qv : QvChoices]]
         /\ files \in Lists(OutNames(S))
    /\ o_pc = "listed" /\ o_i = 0
    /\ val = <<>> /\ time = <<>> /\ iter = <<>> /\ gridpointer = <<>>
    /\ lists = <<>> /\ op = NoOp

\* files.sort(), the empty val, time, iter and gridpointer, and an empty list
\* for each name in attrs (subrange is None, as Meridional_Slices passes it).
BeginOutput ==
    /\ o_pc = "listed"
    /\ files' = files_sort(files)
    /\ val' = <<>> /\ time' = <<>> /\ iter' = <<>> /\ gridpointer' = <<>>
    /\ lists' = [a \in attrs |-> <<>>]
    /\ o_i' = 0
    /\ o_pc' = "loop"
    /\ UNCHANGED <<dir, op, varsEndian, varsShell, varsDiscover, varsSlice, vars3D, varsHandle>>

\* One pass of "for i, f in enumerate(files)": the file is decoded (an
\* exception of the decoder ends the constructor), its records are appended,
\* gridpointer gets i once per record, each attrs list gets the file's value.
ProcessFile ==
    /\ o_pc = "loop"
    /\ o_i < Len(files)
    /\ LET m == Slices_file(file_at(files[o_i + 1])) IN
       IF m.status # "ok"
       THEN /\ o_pc' = m.status
            /\ UNCHANGED <<val, time, iter, gridpointer, lists, o_i>>
       ELSE /\ val' = val \o m.val
            /\ time' = time \o m.time
            /\ iter' = iter \o m.iter
            /\ gridpointer' = gridpointer \o grid_entries(Len(m.val), o_i)
            /\ lists' = [a \in attrs |-> Append(lists[a], m[a])]
            /\ o_i' = o_i + 1
            /\ UNCHANGED o_pc
    /\ UNCHANGED <<dir, files, op, varsEndian, varsShell, varsDiscover, varsSlice, vars3D, varsHandle>>

\* The loop is over: the constructor returns.
EndOutput ==
    /\ o_pc = "loop"
    /\ o_i = Len(files)
    /\ o_pc' = "done"
    /\ UNCHANGED <<dir, files, o_i, val, time, iter, gridpointer, lists, op,
                   varsEndian, varsShell, varsDiscover, varsSlice, vars3D, varsHandle>>

\* ------------------------------------------------------------------------
\* Rayleigh_Output: field access and iteration
\* ------------------------------------------------------------------------

\* The quantity index (module lut): the codes of the names it knows.
Lut == [vr |-> 1, vtheta |-> 2, vphi |-> 3]

\* lut.parse_quantity(name)[0]: the code, or None for a name it does not know.
parse_quantity(name) ==
    IF name \in DOMAIN Lut THEN [none |-> FALSE, code |-> Lut[name]]
    ELSE [none |-> TRUE, code |-> 0]

\* Attribute names asked for: the known ones and an unknown one.
FieldNames == {"vr", "vtheta", "vphi", "bogus"}

\* At most MaxOverrun positions past the end are followed by an iteration.
MaxOverrun == 2

\* l[i] on a Python list: the 1-based place of index i, 0 for IndexError.
py_index(l, i) ==
    IF i >= 0 /\ i < Len(l) THEN i + 1
    ELSE IF i < 0 /\ 0 - i <= Len(l) THEN Len(l) + i + 1
    ELSE 0

\* A mutant of get_q: the column is looked up in the first file's mapping.
get_q_first_mapping(i, qcode) ==
    IF py_index(gridpointer, i) = 0 THEN [res |-> "IndexError", data |-> NoDatum]
    ELSE LET v == val[py_index(val, i)]
             qvmap == lists["qvmap"][1]
         IN  IF qcode \notin DOMAIN qvmap THEN [res |-> "KeyError", data |-> NoDatum]
             ELSE IF Len(v.shape) # 4 \/ qvmap[qcode] >= v.shape[4]
                  THEN [res |-> "IndexError", data |-> NoDatum]
             ELSE [res |-> "ok", data |-> v.col[qvmap[qcode]]]

\* Meridional_Slices.get_q(i, qcode):
\*   igrid = self.gridpointer[i]
\*   return self.val[i][:, :, :, self.qvmap[igrid][qcode]]
get_q(i, qcode) ==
    IF py_index(gridpointer, i) = 0 THEN [res |-> "IndexError", data |-> NoDatum]
    ELSE LET igrid == gridpointer[py_index(gridpointer, i)]
             v == val[py_index(val, i)]
         IN  IF py_index(lists["qvmap"], igrid) = 0
             THEN [res |-> "IndexError", data |-> NoDatum]
             ELSE LET qvmap == lists["qvmap"][py_index(lists["qvmap"], igrid)] IN
                  IF qcode \notin DOMAIN qvmap
                  THEN [res |-> "KeyError", data |-> NoDatum]
                  ELSE IF Len(v.shape) # 4 \/ qvmap[qcode] >= v.shape[4]
                       THEN [res |-> "IndexError", data |-> NoDatum]
                  ELSE [res |-> "ok", data |-> v.col[qvmap[qcode]]]

\* Rayleigh_TimeStep.__getattr__(name) on the time step of position i, and
\* Rayleigh_Output.__getattr__(name) followed by Rayleigh_TimeSeries
\* .__getitem__(i): an unknown name raises AttributeError, a known one goes to
\* get_q.
getattr_q(i, name) ==
    IF parse_quantity(name).none THEN [res |-> "AttributeError", data |-> NoDatum]
    ELSE get_q(i, parse_quantity(name).code)

\* output[i].name
TimeStepGetattr ==
    /\ o_pc = "done"
    /\ op.kind = "none"
    /\ \E i \in (-1)..Len(val), name \in FieldNames :
         op' = [NoOp EXCEPT !.kind = "timestep", !.i = i, !.name = name,
                            !.res = getattr_q(i, name).res,
                            !.data = getattr_q(i, name).data]
    /\ UNCHANGED <<dir, files, o_pc, o_i, val, time, iter, gridpointer, lists,
                   varsEndian, varsShell, varsDiscover, varsSlice, vars3D, varsHandle>>

\* output.name[i]
TimeSeriesGetitem ==
    /\ o_pc = "done"
    /\ op.kind = "none"
    /\ \E i \in (-1)..Len(val), name \in FieldNames :
         op' = [NoOp EXCEPT !.kind = "timeseries", !.i = i, !.name = name,
                            !.res = getattr_q(i, name).res,
                            !.data = getattr_q(i, name).data]
    /\ UNCHANGED <<dir, files, o_pc, o_i, val, time, iter, gridpointer, lists,
                   varsEndian, varsShell, varsDiscover, varsSlice, vars3D, varsHandle>>

\* iter(output), or iter(output.name) for a name the index knows:
\* collections.abc.Sequence.__iter__ starts at position 0.
IterStart ==
    /\ o_pc = "done"
    /\ op.kind = "none"
    /\ \/ op' = [NoOp EXCEPT !.kind = "iter_output", !.res = "running"]
       \/ \E name \in DOMAIN Lut :
            op' = [NoOp EXCEPT !.kind = "iter_timeseries", !.name = name,
                               !.res = "running"]
    /\ UNCHANGED <<dir, files, o_pc, o_i, val, time, iter, gridpointer, lists,
                   varsEndian, varsShell, varsDiscover, varsSlice, vars3D, varsHandle>>

\* One turn of Sequence.__iter__: v = self[i]; yield v; i += 1, ended by an
\* IndexError of self[i].  Rayleigh_Output.__getitem__ builds a
\* Rayleigh_TimeStep for any i; Rayleigh_TimeSeries.__getitem__ is get_q.
IterNext ==
    /\ o_pc = "done"
    /\ op.res = "running"
    /\ op.pos < Len(val) + MaxOverrun
    /\ IF op.kind = "iter_output"
       THEN op' = [op EXCEPT !.pos = @ + 1, !.yielded = @ + 1]
       ELSE LET r == get_q(op.pos, parse_quantity(op.name).code) IN
            IF r.res = "ok"
            THEN op' = [op EXCEPT !.pos = @ + 1, !.yielded = @ + 1, !.data = r.data]
            ELSE IF r.res = "IndexError"
            THEN op' = [op EXCEPT !.res = "stopped"]
            ELSE op' = [op EXCEPT !.res = r.res]
    /\ UNCHANGED <<dir, files, o_pc, o_i, val, time, iter, gridpointer, lists,
                   varsEndian, varsShell, varsDiscover, varsSlice, vars3D, varsHandle>>

\* ------------------------------------------------------------------------
\* Spherical_3D_grid, Spherical_3D_value and the two ways to a field
\* ------------------------------------------------------------------------

\* Grid files (nr, ntheta, nphi as stored) with the step and the quantity
\* code asked for.
GridFiles ==
    [nr : 1..MaxDim, ntheta : 1..MaxDim, nphi : 1..(2 * MaxDim),
     step : OutSteps, q : {Lut[n] : n \in DOMAIN Lut}]

\* Spherical_3D_grid.__init__ on a well-formed file: the sentinel, then
\* nr, ntheta, nphi, the assert, radius[nr] and thetas[ntheta].
Spherical_3D_grid(f) ==
    IF f.nphi # 2 * f.ntheta THEN [status |-> "AssertionError"]
    ELSE [status |-> "ok", nr |-> f.nr, ntheta |-> f.ntheta, nphi |-> f.nphi,
          radius |-> get_value_shape(<<f.nr>>),
          thetas |-> get_value_shape(<<f.ntheta>>)]

\* Spherical_3D_value.__new__(filename, nr, ntheta, nphi, endian): the byte
\* order is passed in, so BaseFile reads no sentinel and the one read starts
\* at offset 0.
Spherical_3D_value(filename, nr, ntheta, nphi) ==
    [status |-> "ok", file |-> filename, start |-> 0,
     shape |-> get_value_shape(<<nphi, ntheta, nr>>)]

\* os.path.join(directory, "{:08d}_{:04d}".format(step, qcode)), less the
\* directory.
field_name(st, qcode) ==
    format_d(st, SnapWidth) \o <<"_">> \o format_d(qcode, QuantWidth)

\* Spherical_3D_TimeSeries.__getitem__(ind), getone(self.snaps[ind]).
timeseries_getone(f) ==
    LET grid == Spherical_3D_grid(f) IN
    IF grid.status # "ok" THEN [status |-> grid.status]
    ELSE Spherical_3D_value(field_name(f.step, f.q), grid.nr, grid.ntheta, grid.nphi)

\* len(np.linspace(0., 2 * np.pi, nphi)[1:]): the midpoints of nphi edges.
phis_len(nphi) == IF nphi >= 1 THEN nphi - 1 ELSE 0

\* Spherical_3D_Snapshot.__init__ followed by .q(q): the dimensions are
\* len(self.radius), len(self.thetas), len(self.phis); len() of a one-point
\* coordinate, which get_value returned as a scalar, raises TypeError.
snapshot_q(f) ==
    LET grid == Spherical_3D_grid(f) IN
    IF grid.status # "ok" THEN [status |-> grid.status]
    ELSE IF grid.radius = <<>> \/ grid.thetas = <<>> THEN [status |-> "TypeError"]
    ELSE Spherical_3D_value(field_name(f.step, f.q), grid.radius[1], grid.thetas[1],
                            phis_len(grid.nphi))

NoGridFile == [nr |-> 0, ntheta |-> 0, nphi |-> 0, step |-> 0, q |-> 0]
NoField == [path |-> "none", status |-> "idle"]

Idle3D == grid_file = NoGridFile /\ g3 = NoField

Init3DVars == grid_file \in GridFiles /\ g3 = [path |-> "none", status |-> "pending"]

\* Spherical_3D.q(code)[k]
TimeSeriesGetitem3D ==
    /\ g3.status = "pending"
    /\ g3' = [path |-> "timeseries"] @@ timeseries_getone(grid_file)
    /\ UNCHANGED <<grid_file, varsEndian, varsShell, varsDiscover, varsSlice,
                   varsOutput, varsHandle>>

\* Spherical_3D[step].q(code)
SnapshotQ ==
    /\ g3.status = "pending"
    /\ g3' = [path |-> "snapshot"] @@ snapshot_q(grid_file)
    /\ UNCHANGED <<grid_file, varsEndian, varsShell, varsDiscover, varsSlice,
                   varsOutput, varsHandle>>

\* ------------------------------------------------------------------------
\* BaseFile.__init__ and the handle it opens (under Spherical_3D_grid)
\* ------------------------------------------------------------------------

\* The bytes a grid file with these counts holds when complete.
grid_size(f) == SigSize + 3 * 4 + 8 * f.nr + 8 * f.ntheta

\* Grid files as found on disk: the sentinel bytes, the counts, and the
\* length, which may fall short anywhere; opened with or without memmap.
HandleFiles ==
    { f \in [sentinel : {EncodeLESentinel, EncodeBESentinel, <<0, 0, 0, 0>>},
             nr : 1..MaxDim, ntheta : 1..MaxDim, twice : BOOLEAN,
             size : 0..(SigSize + 12 + 16 * MaxDim), memmap : BOOLEAN] :
        f.size \in {0, 3, SigSize, SigSize + 11, SigSize + 12,
                     SigSize + 12 + 8 * f.nr, grid_size(f) - 1, grid_size(f)} }

NoHandleFile ==
    [sentinel |-> <<>>, nr |-> 0, ntheta |-> 0, twice |-> FALSE, size |-> 0,
     memmap |-> FALSE]
NoHandle ==
    [pc |-> "idle", fd_open |-> FALSE, map_open |-> FALSE, views |-> 0,
     cursor |-> 0, endian |-> "none", error |-> "none"]

IdleHandle == h_file = NoHandleFile /\ h = NoHandle

InitHandleVars == h_file \in HandleFiles /\ h = [NoHandle EXCEPT !.pc = "start"]

\* self.fh = open(filename, "rb")
OpenFile ==
    /\ h.pc = "start"
    /\ h' = [h EXCEPT !.fd_open = TRUE, !.pc = IF h_file.memmap THEN "map" ELSE "endian"]
    /\ UNCHANGED <<h_file, varsEndian, varsShell, varsDiscover, varsSlice,
                   varsOutput, vars3D>>

\* buf = mmap.mmap(...); self.fh.close(); self.fh = buf.  Mapping an empty
\* file raises ValueError before the close.
MapFile ==
    /\ h.pc = "map"
    /\ h' = IF h_file.size = 0
            THEN [h EXCEPT !.pc = "failed", !.error = "ValueError"]
            ELSE [h EXCEPT !.map_open = TRUE, !.fd_open = FALSE, !.pc = "endian"]
    /\ UNCHANGED <<h_file, varsEndian, varsShell, varsDiscover, varsSlice,
                   varsOutput, vars3D>>

\* The bytes fd.read(n) gives at the cursor.
available(n) ==
    IF h.cursor + n <= h_file.size THEN n
    ELSE IF h_file.size > h.cursor THEN h_file.size - h.cursor ELSE 0

\* self.endian = self.get_endian(self.fh, 314, 'i4')
ReadSentinel ==
    /\ h.pc = "endian"
    /\ LET e == get_endian(SubSeq(h_file.sentinel, 1, available(SigSize)), Sentinel) IN
       h' = IF e \in {"<", ">"}
            THEN [h EXCEPT !.endian = e, !.cursor = @ + SigSize, !.pc = "dims"]
            ELSE [h EXCEPT !.pc = "failed", !.error = e]
    /\ UNCHANGED <<h_file, varsEndian, varsShell, varsDiscover, varsSlice,
                   varsOutput, vars3D>>

\* get_value(dtype, shape) of n bytes at the cursor: past the end of the file
\* np.ndarray (memmap) raises TypeError and np.fromfile's short result cannot
\* take the shape (ValueError).  An array of more than one element read from
\* the map is a view of it; out[0] of a one-element read is a copy.
read_value(n, count, kept, next) ==
    IF available(n) < n
    THEN [h EXCEPT !.pc = "failed",
                   !.error = IF h_file.memmap THEN "TypeError" ELSE "ValueError"]
    ELSE [h EXCEPT !.cursor = @ + n, !.pc = next,
                   !.views = IF h_file.memmap /\ kept /\ count # 1 THEN @ + 1 ELSE @]

\* self.nr, self.ntheta, self.nphi = self.get_value('i4', shape=[3])
\* assert(self.nphi == 2 * self.ntheta)
ReadDims ==
    /\ h.pc = "dims"
    /\ LET r == read_value(12, 3, FALSE, "radius") IN
       h' = IF r.pc # "failed" /\ ~h_file.twice
            THEN [r EXCEPT !.pc = "failed", !.error = "AssertionError"]
            ELSE r
    /\ UNCHANGED <<h_file, varsEndian, varsShell, varsDiscover, varsSlice,
                   varsOutput, vars3D>>

\* self.radius = self.get_value('f8', shape=[self.nr])
ReadRadius ==
    /\ h.pc = "radius"
    /\ h' = read_value(8 * h_file.nr, h_file.nr, TRUE, "thetas")
    /\ UNCHANGED <<h_file, varsEndian, varsShell, varsDiscover, varsSlice,
                   varsOutput, vars3D>>

\* self.thetas = self.get_value('f8', shape=[self.ntheta]); the constructor
\* returns.
ReadThetas ==
    /\ h.pc = "thetas"
    /\ h' = read_value(8 * h_file.ntheta, h_file.ntheta, TRUE, "done")
    /\ UNCHANGED <<h_file, varsEndian, varsShell, varsDiscover, varsSlice,
                   varsOutput, vars3D>>

\* Not a step of the program: once the caller has dropped the object, the
\* exception and every array viewing the map, the runtime may reclaim them
\* and close what they held.
Reclaim ==
    /\ h.pc \in {"done", "failed"}
    /\ h' = [h EXCEPT !.pc = "reclaimed", !.fd_open = FALSE, !.map_open = FALSE,
                       !.views = 0]
    /\ UNCHANGED <<h_file, varsEndian, varsShell, varsDiscover, varsSlice,
                   varsOutput, vars3D>>

\* ------------------------------------------------------------------------
\* Specifications
\* ------------------------------------------------------------------------

InitEndian == InitEndianVars /\ IdleShell /\ IdleDiscover /\ IdleSlice /\ IdleOutput /\ Idle3D /\ IdleHandle
NextEndian == DetectEndian
SpecEndian == InitEndian /\ [][NextEndian]_vars

InitShellAvgs == InitShellVars /\ IdleEndian /\ IdleDiscover /\ IdleSlice /\ IdleOutput /\ Idle3D /\ IdleHandle
NextShellAvgs == DecodeShellAvgs
SpecShellAvgs == InitShellAvgs /\ [][NextShellAvgs]_vars

InitDiscover == InitDiscoverVars /\ IdleEndian /\ IdleShell /\ IdleSlice /\ IdleOutput /\ Idle3D /\ IdleHandle
NextDiscover == ScanEntry \/ FinishDiscover
SpecDiscover == InitDiscover /\ [][NextDiscover]_vars

InitSlice == InitSliceVars /\ IdleEndian /\ IdleShell /\ IdleDiscover /\ IdleOutput /\ Idle3D /\ IdleHandle
NextSlice == DecodeSlice
SpecSlice == InitSlice /\ [][NextSlice]_vars

InitOutput ==
    InitOutputVars /\ IdleEndian /\ IdleShell /\ IdleDiscover /\ IdleSlice /\ Idle3D /\ IdleHandle
NextOutput ==
    \/ BeginOutput \/ ProcessFile \/ EndOutput
    \/ TimeStepGetattr \/ TimeSeriesGetitem \/ IterStart \/ IterNext
SpecOutput == InitOutput /\ [][NextOutput]_vars

Init3D ==
    Init3DVars /\ IdleEndian /\ IdleShell /\ IdleDiscover /\ IdleSlice /\ IdleOutput
        /\ IdleHandle
Next3D == TimeSeriesGetitem3D \/ SnapshotQ
Spec3D == Init3D /\ [][Next3D]_vars

InitHandle ==
    InitHandleVars /\ IdleEndian /\ IdleShell /\ IdleDiscover /\ IdleSlice
        /\ IdleOutput /\ Idle3D
NextHandle ==
    \/ OpenFile \/ MapFile \/ ReadSentinel \/ ReadDims \/ ReadRadius \/ ReadThetas
    \/ Reclaim
SpecHandle == InitHandle /\ [][NextHandle]_vars

\* Both directory scans: Spherical_3D's discovery and Rayleigh_Output's
\* construction, one of them per behaviour.
InitOrder ==
    /\ \/ InitDiscoverVars /\ IdleOutput
       \/ InitOutputVars /\ IdleDiscover
    /\ IdleEndian /\ IdleShell /\ IdleSlice /\ Idle3D /\ IdleHandle
NextOrder ==
    \/ ScanEntry \/ FinishDiscover
    \/ BeginOutput \/ ProcessFile \/ EndOutput
SpecOrder == InitOrder /\ [][NextOrder]_vars

\* ------------------------------------------------------------------------
\* Claims
\* ------------------------------------------------------------------------

\* The little- and big-endian encodings of a non-negative int32.
EncodeLE(v) ==
    <<v % 256, (v \div 256) % 256, (v \div 65536) % 256, (v \div 16777216) % 256>>
EncodeBE(v) ==
    <<(v \div 16777216) % 256, (v \div 65536) % 256, (v \div 256) % 256, v % 256>>

\* C1: for every 4-byte sentinel field, get_endian answers '<' exactly when
\* the bytes are 314 written little-endian, '>' exactly when they are 314
\* written big-endian, and raises (returns no byte order) otherwise.
C1_EndianDetected ==
    (endian # "unread" /\ endian # "idle" /\ Len(buf) = SigSize) =>
        /\ (buf = EncodeLE(Sentinel)) <=> (endian = "<")
        /\ (buf = EncodeBE(Sentinel)) <=> (endian = ">")
        /\ (buf # EncodeLE(Sentinel) /\ buf # EncodeBE(Sentinel))
               <=> (endian = "IOError")

\* C1 witness: a big-endian sentinel has been read and detected.
C1_Witness == buf = EncodeBE(Sentinel) /\ endian = ">"
\* C2: the shell-average decoder picks the record layout by a closed match on
\* the version: [nr, nq] for version 1, [nr, 4, nq] for versions 2..5 and
\* for versions >= 6, and every other version integer (version <= 0) ends in
\* an unsupported-version error instead of being decoded.
C2_ClosedVersionMatch ==
    (shell.status # "idle" /\ shell.status # "undecoded") =>
        /\ (shell_file.version = 1) =>
               (shell.status = "ok" /\ shell.layout = <<shell_file.nr, shell_file.nq>>)
        /\ (shell_file.version >= 2) =>
               (shell.status = "ok"
                  /\ shell.layout = <<shell_file.nr, 4, shell_file.nq>>)
        /\ (shell_file.version <= 0) => (shell.status = "UnsupportedVersion")

\* The integers a step or a quantity is looked for among.
IntVals == -20..20
NatVals == 0..20

\* A grid entry: "<anything without an underscore>_grid".
IsGridEntry(e) ==
    /\ Len(e) >= 5
    /\ SubSeq(e, Len(e) - 4, Len(e)) = <<"_">> \o GridToken
    /\ \A i \in 1..(Len(e) - 5) : e[i] # "_"

\* e is "{s:08d}_{q:04d}" for the step s and a quantity q of Q.
NamesStep(e, s, Q) ==
    LET n == Len(format_d(s, SnapWidth)) IN
    /\ Len(e) > n + 1
    /\ SubSeq(e, 1, n) = format_d(s, SnapWidth)
    /\ e[n + 1] = "_"
    /\ \E q \in Q : SubSeq(e, n + 2, Len(e)) = format_d(q, QuantWidth)

\* e is "{s:08d}_{q:04d}", character for character, for some s and q of V.
RoundTrips(e, V) == \E s \in V : NamesStep(e, s, V)

\* The elements of self.snaps, a set during the scan and a list after it.
SnapsNow == IF d_pc = "done" THEN {snaps[i] : i \in DOMAIN snaps} ELSE snaps

C9_SingleQuantityDecodes ==
    slice.status \notin {"idle", "undecoded"} =>
        /\ slice.status = "ok"
        /\ DOMAIN slice.qvmap = {slice_file.qv[i] : i \in DOMAIN slice_file.qv}
        /\ \A i \in DOMAIN slice_file.qv : slice.qvmap[slice_file.qv[i]] = i - 1
        /\ \A r \in DOMAIN slice.val :
               /\ slice.val[r].shape # <<>>
               /\ slice.val[r].shape[Len(slice.val[r].shape)] = Len(slice_file.qv)

\* The step a file name of an output directory spells.
NameStep(n) == digits_value(n)

RECURSIVE RecsIn(_)
\* The records held by the files named in N.
RecsIn(N) ==
    IF N = {} THEN 0
    ELSE LET n == CHOOSE x \in N : TRUE IN dir[n].nrec + RecsIn(N \ {n})

\* The file and the record in it that the k-th record of the series comes
\* from, the files taken in ascending step order.
Origin(k) ==
    CHOOSE o \in [name : DOMAIN dir, rec : 1..MaxRec] :
        /\ o.rec <= dir[o.name].nrec
        /\ RecsIn({x \in DOMAIN dir : NameStep(x) < NameStep(o.name)}) + o.rec = k

\* C4: whatever order the listing came in, the series is in ascending step
\* order: Spherical_3D.snaps is the strictly ascending list of the distinct
\* steps, and Rayleigh_Output takes the files of the directory, each once, in
\* strictly ascending step order and holds their records file by file in
\* that order, so the series depends on the directory alone.
C4_AscendingSteps ==
    /\ d_pc = "done" =>
          /\ \A i \in 1..(Len(snaps) - 1) : snaps[i] < snaps[i + 1]
          /\ {snaps[i] : i \in DOMAIN snaps}
                = { st \in IntVals :
                      \E e \in seen : ~IsGridEntry(e) /\ NamesStep(e, st, IntVals) }
    /\ o_pc \notin {"idle", "listed"} =>
          /\ \A i \in 1..(Len(files) - 1) : NameStep(files[i]) < NameStep(files[i + 1])
          /\ {files[i] : i \in DOMAIN files} = DOMAIN dir
          /\ \A k \in DOMAIN time : \A l \in DOMAIN time :
                k < l =>
                  \/ NameStep(time[k].name) < NameStep(time[l].name)
                  \/ time[k].name = time[l].name /\ time[k].rec < time[l].rec
          /\ o_pc = "done" =>
                \A k \in DOMAIN time :
                    /\ time[k] = Origin(k)
                    /\ val[k].col[0].name = Origin(k).name
                    /\ val[k].col[0].rec = Origin(k).rec

\* C4 witness: an output built from two files whose records are both in the
\* series.
C4_Witness ==
    /\ o_pc = "done"
    /\ Len(files) = 2
    /\ \E k \in DOMAIN time : \E l \in DOMAIN time : time[k].name # time[l].name

RECURSIVE RecsUpTo(_)
\* c_0 + ... + c_{j-1}: the records of the first j files in processing order.
RecsUpTo(j) == IF j = 0 THEN 0 ELSE RecsUpTo(j - 1) + dir[files[j]].nrec

\* C5: after each file processed (and so at the end), val, time, iter and
\* gridpointer all have as many entries as the files processed so far hold
\* records; gridpointer is non-decreasing; gridpointer[k] = j exactly when
\* record k was decoded from file f_j; and every attrs list has one entry per
\* file processed, so gridpointer[k] is a valid index into it.
C5_GridpointerParallel ==
    o_pc \in {"loop", "done"} =>
        /\ Len(gridpointer) = RecsUpTo(o_i)
        /\ Len(val) = Len(gridpointer)
        /\ Len(time) = Len(gridpointer)
        /\ Len(iter) = Len(gridpointer)
        /\ \A k \in 1..(Len(gridpointer) - 1) : gridpointer[k] <= gridpointer[k + 1]
        /\ \A k \in DOMAIN gridpointer : \A j \in 0..(o_i - 1) :
              (gridpointer[k] = j) <=>
                  /\ val[k].col[0].name = files[j + 1]
                  /\ time[k].name = files[j + 1]
                  /\ iter[k].name = files[j + 1]
        /\ \A a \in attrs : Len(lists[a]) = o_i
        /\ \A k \in DOMAIN gridpointer : gridpointer[k] \in 0..(o_i - 1)

\* C5 witness: two files processed, the first of them holding two records.
C5_Witness ==
    /\ o_pc = "loop"
    /\ o_i = 2
    /\ Len(gridpointer) >= 3
    /\ gridpointer[1] = 0 /\ gridpointer[2] = 0 /\ gridpointer[3] = 1

\* C6: field access by name at record index i gives the column that the
\* mapping of the file record i came from assigns to the name's code, which
\* holds that file's field of that code; a name the quantity index does not
\* know raises AttributeError, a code absent from that file's mapping raises
\* KeyError, and neither gives a value.
C6_MappedColumn ==
    (o_pc = "done" /\ op.kind \in {"timestep", "timeseries"}) =>
        LET k == py_index(val, op.i) IN
        /\ op.name \notin DOMAIN Lut =>
              (op.res = "AttributeError" /\ op.data = NoDatum)
        /\ (op.name \in DOMAIN Lut /\ k # 0) =>
              LET o == Origin(k)
                  code == Lut[op.name]
              IN  IF \E c \in DOMAIN dir[o.name].qv : dir[o.name].qv[c] = code
                  THEN /\ op.res = "ok"
                       /\ op.data = [name |-> o.name, rec |-> o.rec, q |-> code]
                       /\ op.data = val[k].col[lists["qvmap"][gridpointer[k] + 1][code]]
                  ELSE op.res = "KeyError" /\ op.data = NoDatum

\* C6 witness: a field read from a record of the second file, whose mapping
\* puts the code in another column than the first file's does.
C6_Witness ==
    /\ o_pc = "done"
    /\ op.kind = "timestep"
    /\ op.res = "ok"
    /\ gridpointer[py_index(val, op.i)] = 1
    /\ Lut[op.name] \in DOMAIN lists["qvmap"][1]
    /\ lists["qvmap"][1][Lut[op.name]] # lists["qvmap"][2][Lut[op.name]]

\* C10: iterating an output, or a time series of it, yields one item per
\* record, for positions 0..n-1, and stops there.
C10_IterationStops ==
    op.kind \in {"iter_output", "iter_timeseries"} =>
        /\ op.yielded <= Len(val)
        /\ op.pos <= Len(val)

\* C7: a 3D field file is decoded from byte offset 0 as an array of shape
\* [nphi, ntheta, nr], the dimensions of the paired grid file, and both ways
\* to it, Spherical_3D.q(code)[k] and Spherical_3D[step].q(code), decode the
\* same file with that shape.
C7_FieldShapeFromGrid ==
    (g3.status \notin {"idle", "pending"} /\ grid_file.nphi = 2 * grid_file.ntheta) =>
        /\ g3.status = "ok"
        /\ g3.file = field_name(grid_file.step, grid_file.q)
        /\ g3.start = 0
        /\ g3.shape = <<grid_file.nphi, grid_file.ntheta, grid_file.nr>>

\* C8: when a decode has ended, by returning or by raising, no file handle
\* and no mapped view that it opened is still open.
C8_HandleReleased ==
    h.pc \in {"done", "failed"} => (~h.fd_open /\ ~h.map_open)
====
